---- MODULE Spec2Model ----
(***************************************************************************)
(* nt: a directory of dated markdown notes used as a todo database.        *)
(*                                                                         *)
(* A note file is a sequence of physical lines (the pieces between "\n").  *)
(* A line is a leading marker and a body of whitespace separated tokens:   *)
(*   box "open"  the line starts with "- [ ] "                            *)
(*   box "done"  the line starts with "- [x] "                            *)
(*   box "h2"    the line starts with "## "                               *)
(*   box "none"  anything else (the empty body is the blank line)          *)
(* Tokens are words ("w"), tags ("#a"), the annotation words "@done" and   *)
(* "@due", ISO dates, and "FF": a character such as form feed, U+2028 or a *)
(* lone CR that str.splitlines() treats as a line boundary while ripgrep   *)
(* counts lines by "\n" alone.                                             *)
(***************************************************************************)
EXTENDS Integers, Sequences, FiniteSets, TLC

VARIABLES
    files,      \* Spec: path -> physical lines of the note file
    pc,         \* Spec: "idle", or "scanned" inside update_todo_status
    cmd,        \* Spec: the command being run (or run last)
    todos,      \* Spec: the corpus the command loaded
    outcome,    \* Spec: what the command reported
    written,    \* Spec: the files the command wrote
    listing,    \* Spec: the rows printed by list_todos
    groups,     \* Spec: the groups printed by agenda
    edited,     \* Spec: an external edit happened since the command's scan
    edits,      \* Spec: external edits so far
    rt,         \* Spec: the done-then-reopen pair in progress
    note,       \* SpecAppend: the lines of one note file
    noteExists, \* SpecAppend: whether that file exists
    calls       \* SpecAppend: the append_to_section calls made so far

vars == <<files, pc, cmd, todos, outcome, written, listing, groups, edited,
          edits, rt, note, noteExists, calls>>
specVars == <<files, pc, cmd, todos, outcome, written, listing, groups,
              edited, edits, rt>>
appendVars == <<note, noteExists, calls>>

------------------------------------------------------------------------------
(* Bounds *)

MaxLines == 2
MaxEdits == 1
MaxIndex == 3
MaxNoteLen == 3
MaxAppends == 2

------------------------------------------------------------------------------
(* Dates and paths *)

None == "None"

IsoDates == {"2024-03-10", "2024-03-15", "2024-03-16", "2024-03-18", "2024-03-20"}

\* ISO dates are compared as strings; for YYYY-MM-DD that is the order of
\* the numbers yyyymmdd.
DateNum ==
    ("2024-03-10" :> 20240310) @@ ("2024-03-15" :> 20240315) @@
    ("2024-03-16" :> 20240316) @@ ("2024-03-18" :> 20240318) @@
    ("2024-03-20" :> 20240320)

Today == "2024-03-16"

F1 == "notes/2024/03/15-03-2024.md"
F2 == "notes/2024/03/18-03-2024.md"
F3 == "notes/inbox.md"
Files == {F1, F2, F3}

\* The order of the paths as strings.
PosixRank == (F1 :> 1) @@ (F2 :> 2) @@ (F3 :> 3)

\* strptime(stem, "%d-%m-%Y"): the date of the stem, None when it does not parse.
date_from_note_path(f) ==
    CASE f = F1 -> "2024-03-15"
      [] f = F2 -> "2024-03-18"
      [] OTHER -> None

Min(S) == CHOOSE x \in S : \A y \in S : x <= y

SeqsUpTo(S, n) == UNION {[1..k -> S] : k \in 0..n}

------------------------------------------------------------------------------
(* Lines *)

Ln(b, t) == [box |-> b, body |-> t]
Blank == Ln("none", <<>>)

IsDate(t) == t \in IsoDates
IsTag(t) == t \in {"#a", "#b"}
TagName == ("#a" :> "a") @@ ("#b" :> "b")

\* A line written as text that starts with a marker is that marker's line:
\* "- [ ]" followed by " @done ..." is the text "- [ ] @done ...".
Norm(line) ==
    IF line.box = "none" /\ Len(line.body) >= 2
    THEN CASE line.body[1] = "- [ ]" -> Ln("open", Tail(line.body))
           [] line.body[1] = "- [x]" -> Ln("done", Tail(line.body))
           [] line.body[1] = "##" -> Ln("h2", Tail(line.body))
           [] OTHER -> line
    ELSE line

\* str.rstrip(): a marker with nothing after it loses its trailing space and
\* is no longer the marker.
RStrip(line) ==
    IF line.body # <<>> THEN line
    ELSE CASE line.box = "open" -> Ln("none", <<"- [ ]">>)
           [] line.box = "done" -> Ln("none", <<"- [x]">>)
           [] line.box = "h2" -> Ln("none", <<"##">>)
           [] OTHER -> line

\* re.search(r"@tag\s+\d{4}-\d{2}-\d{2}", body): the date of the first match.
AnnotDate(body, word) ==
    LET I == {i \in 1..(Len(body) - 1) : body[i] = word /\ IsDate(body[i + 1])}
    IN IF I = {} THEN None ELSE body[Min(I) + 1]

\* re.sub(r"\s*@tag\s+\d{4}-\d{2}-\d{2}", "", body): one pass, left to right,
\* over non-overlapping matches.
RECURSIVE StripAnnot(_, _)
StripAnnot(body, word) ==
    IF body = <<>> THEN <<>>
    ELSE IF Len(body) >= 2 /\ body[1] = word /\ IsDate(body[2])
         THEN StripAnnot(SubSeq(body, 3, Len(body)), word)
         ELSE <<body[1]>> \o StripAnnot(Tail(body), word)

\* The tokens of a body between its line boundary characters.
RECURSIVE Segments(_)
Segments(body) ==
    LET I == {i \in 1..Len(body) : body[i] = "FF"}
    IN IF I = {} THEN <<body>>
       ELSE <<SubSeq(body, 1, Min(I) - 1)>>
            \o Segments(SubSeq(body, Min(I) + 1, Len(body)))

\* str.splitlines() of one physical line: the marker stays with the first piece.
Pieces(line) ==
    LET segs == Segments(line.body)
    IN [k \in 1..Len(segs) |->
          IF k = 1 THEN Ln(line.box, segs[1]) ELSE Norm(Ln("none", segs[k]))]

\* str.splitlines() of a file's text.
RECURSIVE splitlines(_)
splitlines(lines) ==
    IF lines = <<>> THEN <<>>
    ELSE Pieces(Head(lines)) \o splitlines(Tail(lines))

------------------------------------------------------------------------------
(* Checkbox line parser *)

\* ripgrep's pattern "^- \[( |x)\] ".
RgMatches(line) == line.box \in {"open", "done"}

\* re.match(r"^- \[( |x)\] (?P<body>.+)$", line)
IsCheckbox(line) == line.box \in {"open", "done"} /\ line.body # <<>>

parse_todo_line(line, f, n) ==
    LET completed == AnnotDate(line.body, "@done")
        body1 == IF completed # None THEN StripAnnot(line.body, "@done")
                 ELSE line.body
        due == AnnotDate(body1, "@due")
        body2 == IF due # None THEN StripAnnot(body1, "@due") ELSE body1
        created == IF date_from_note_path(f) # None
                   THEN date_from_note_path(f) ELSE Today
    IN [text |-> SelectSeq(body2, LAMBDA t : ~IsTag(t)),
        tags |-> {TagName[body2[i]] : i \in {j \in 1..Len(body2) : IsTag(body2[j])}},
        created |-> created,
        file |-> f,
        line_no |-> n,
        status |-> IF line.box = "done" THEN "done" ELSE "open",
        due |-> due,
        completed |-> completed]

------------------------------------------------------------------------------
(* Todo corpus scanner *)

\* ripgrep walks the directory in parallel and reports the files in no fixed
\* order: two of the orders, ascending and descending by path.
RgOrders == {<<F1, F2, F3>>, <<F3, F2, F1>>}

\* The entries of one file: ripgrep numbers the physical lines; its output is
\* cut by splitlines(), so a matched line is parsed up to its first boundary
\* character and the rest of it is skipped as a line without two colons.
FileEntries(fs, f) ==
    LET hits == SelectSeq([n \in 1..Len(fs[f]) |-> n],
                          LAMBDA n : /\ RgMatches(fs[f][n])
                                     /\ IsCheckbox(Pieces(fs[f][n])[1]))
    IN [k \in 1..Len(hits) |->
          parse_todo_line(Pieces(fs[f][hits[k]])[1], f, hits[k])]

todo_matches_from_rg(fs, ord) ==
    FileEntries(fs, ord[1]) \o FileEntries(fs, ord[2]) \o FileEntries(fs, ord[3])

\* key=lambda t: (t.created, t.file.as_posix(), t.line_no)
SortKeyLessNoCreated(a, b) ==
    \/ PosixRank[a.file] < PosixRank[b.file]
    \/ PosixRank[a.file] = PosixRank[b.file] /\ a.line_no < b.line_no

SortKeyLess(a, b) ==
    \/ DateNum[a.created] < DateNum[b.created]
    \/ /\ a.created = b.created
       /\ \/ PosixRank[a.file] < PosixRank[b.file]
          \/ PosixRank[a.file] = PosixRank[b.file] /\ a.line_no < b.line_no

\* list.sort / sorted: a stable sort; less[i, j] tells whether the key of
\* s[i] is below the key of s[j].
SortBy(s, less) ==
    LET rank(i) == 1 + Cardinality({j \in 1..Len(s) :
                        \/ less[j, i]
                        \/ ~less[i, j] /\ j < i})
    IN [p \in 1..Len(s) |-> s[CHOOSE i \in 1..Len(s) : rank(i) = p]]

load_todos(fs, ord) ==
    LET found == todo_matches_from_rg(fs, ord)
    IN SortBy(found, [i, j \in 1..Len(found) |-> SortKeyLess(found[i], found[j])])

------------------------------------------------------------------------------
(* Status mutator *)

HasDoneWord(line) == \E i \in 1..Len(line.body) : line.body[i] = "@done"

\* re.sub(r"^- \[( |x)\] ", marker, original, count=1)
SetBox(line, b) == IF RgMatches(line) THEN [line EXCEPT !.box = b] ELSE line

\* The status == "done" branch.
MarkDone(original) ==
    LET updated == SetBox(original, "done")
    IN IF HasDoneWord(updated) THEN updated
       ELSE Norm([updated EXCEPT !.body = @ \o <<"@done", Today>>])

\* The else branch.
Reopen(original) ==
    LET updated == SetBox(original, "open")
    IN RStrip([updated EXCEPT !.body = StripAnnot(@, "@done")])

AlreadyInStatusNever(todo, status) == FALSE

AlreadyInStatus(todo, status) == todo.status = status

IndexExists(index, ts) == 1 <= index /\ index <= Len(ts)

\* todo = todos[index - 1]
AddressedTodo(ts, index) == ts[index]

NoCmd == [op |-> "none", index |-> 0, status |-> "-", tags |-> {}]
NoRt == [stage |-> 0, index |-> 0, rec |-> <<>>, lines |-> <<>>]

\* update_todo_status up to its read of the addressed file: the scan, the
\* index check and the no-op check.
update_todo_status_scan ==
    /\ pc = "idle"
    /\ \E ord \in RgOrders :
         todos' = load_todos(files, ord)
    /\ \E index \in 0..MaxIndex, status \in {"open", "done"} :
         LET followup == rt.stage = 1 /\ rt.index = index /\ status = "open"
         IN /\ cmd' = [op |-> "update", index |-> index, status |-> status,
                      tags |-> {}]
            /\ IF ~IndexExists(index, todos')
               THEN /\ outcome' = "notfound"
                    /\ pc' = "idle"
                    /\ rt' = IF followup THEN [rt EXCEPT !.stage = 2] ELSE NoRt
               ELSE IF AlreadyInStatus(AddressedTodo(todos', index), status)
                    THEN /\ outcome' = "noop"
                         /\ pc' = "idle"
                         /\ rt' = IF followup THEN [rt EXCEPT !.stage = 2] ELSE NoRt
                    ELSE /\ outcome' = "pending"
                         /\ pc' = "scanned"
                         /\ rt' = IF followup THEN rt ELSE NoRt
    /\ written' = {}
    /\ listing' = <<>>
    /\ groups' = <<>>
    /\ edited' = FALSE
    /\ UNCHANGED <<files, edits>>
    /\ UNCHANGED appendVars

\* The rest of update_todo_status: re-read the file, rewrite the line, write.
update_todo_status_write ==
    /\ pc = "scanned"
    /\ LET todo == AddressedTodo(todos, cmd.index)
           lines == splitlines(files[todo.file])
       IN IF todo.line_no > Len(lines)
          THEN /\ outcome' = "linemissing"
               /\ written' = {}
               /\ rt' = NoRt
               /\ UNCHANGED <<files, todos>>
          ELSE LET original == lines[todo.line_no]
                   updated == IF cmd.status = "done" THEN MarkDone(original)
                              ELSE Reopen(original)
               IN /\ files' = [files EXCEPT
                                 ![todo.file] = [lines EXCEPT ![todo.line_no] = updated]]
                  /\ written' = {todo.file}
                  /\ todos' = [todos EXCEPT
                                 ![cmd.index].status = cmd.status,
                                 ![cmd.index].completed =
                                     IF cmd.status = "done" THEN Today ELSE None]
                  /\ outcome' = "updated"
                  /\ rt' = IF edited THEN NoRt
                           ELSE IF cmd.status = "done"
                                THEN [stage |-> 1, index |-> cmd.index,
                                      rec |-> todo, lines |-> files[todo.file]]
                                ELSE IF rt.stage = 1
                                     THEN [rt EXCEPT !.stage = 2] ELSE NoRt
    /\ pc' = "idle"
    /\ UNCHANGED <<cmd, listing, groups, edited, edits>>
    /\ UNCHANGED appendVars

------------------------------------------------------------------------------
(* External edits of the addressed file between the scan and the re-read *)

PlainLine == Ln("none", <<"w">>)

Addressed == todos[cmd.index].file

ExternalEdit(newLines) ==
    /\ pc = "scanned"
    /\ edits < MaxEdits
    /\ files' = [files EXCEPT ![Addressed] = newLines]
    /\ edited' = TRUE
    /\ edits' = edits + 1
    /\ UNCHANGED <<pc, cmd, todos, outcome, written, listing, groups, rt>>
    /\ UNCHANGED appendVars

\* The file shrinks: its last line is removed.
EditTruncate ==
    /\ pc = "scanned"
    /\ files[Addressed] # <<>>
    /\ ExternalEdit(SubSeq(files[Addressed], 1, Len(files[Addressed]) - 1))

\* The recorded line is replaced by plain text.
EditReplace ==
    /\ pc = "scanned"
    /\ todos[cmd.index].line_no <= Len(files[Addressed])
    /\ ExternalEdit([files[Addressed] EXCEPT ![todos[cmd.index].line_no] = PlainLine])

\* A line is inserted at the top: every line below shifts by one.
EditInsert ==
    /\ pc = "scanned"
    /\ ExternalEdit(<<PlainLine>> \o files[Addressed])

------------------------------------------------------------------------------
(* Presentation *)

Numbered(ts) == [i \in 1..Len(ts) |-> [num |-> i, todo |-> ts[i]]]

\* list_todos: the filter is applied first, the rows are numbered after it.
ListRows(ts, filter) ==
    Numbered(IF filter # "all"
             THEN SelectSeq(ts, LAMBDA t : t.status = filter) ELSE ts)

list_todos ==
    /\ pc = "idle"
    /\ \E ord \in RgOrders :
         todos' = load_todos(files, ord)
    /\ \E filter \in {"all", "open", "done"} :
         /\ listing' = ListRows(todos', filter)
         /\ cmd' = [op |-> "list", index |-> 0, status |-> filter, tags |-> {}]
    /\ outcome' = IF listing' = <<>> THEN "empty" ELSE "listed"
    /\ written' = {}
    /\ groups' = <<>>
    /\ edited' = FALSE
    /\ rt' = NoRt
    /\ UNCHANGED <<files, pc, edits>>
    /\ UNCHANGED appendVars

\* The (idx, todo) pairs agenda keeps: numbered over the whole corpus, then
\* filtered.
AgendaPairs(ts, tags) ==
    SelectSeq(Numbered(ts),
              LAMBDA p : /\ p.todo.status = "open"
                         /\ ~(tags # {} /\ ~(tags \subseteq p.todo.tags)))

AgendaKeyCreated(todo) == todo.created

\* key = todo.due or todo.created
AgendaKey(todo) == IF todo.due # None THEN todo.due ELSE todo.created

PairLess(p, q) == SortKeyLess(p.todo, q.todo)
DateLess(a, b) == DateNum[a] < DateNum[b]

\* by_date, printed for key in sorted(by_date.keys()), each group sorted by
\* the corpus key.
AgendaGroups(ts, tags) ==
    LET pairs == AgendaPairs(ts, tags)
        first == SelectSeq([i \in 1..Len(pairs) |-> i],
                     LAMBDA i : \A j \in 1..(i - 1) :
                                  AgendaKey(pairs[j].todo) # AgendaKey(pairs[i].todo))
        found == [k \in 1..Len(first) |-> AgendaKey(pairs[first[k]].todo)]
        keys == SortBy(found, [i, j \in 1..Len(found) |->
                                 DateLess(found[i], found[j])])
        group(key) == SelectSeq(pairs, LAMBDA p : AgendaKey(p.todo) = key)
    IN [k \in 1..Len(keys) |->
          [key |-> keys[k],
           entries |-> SortBy(group(keys[k]),
                              [i, j \in 1..Len(group(keys[k])) |->
                                 PairLess(group(keys[k])[i], group(keys[k])[j])])]]

TagRequests == {{}, {"a"}, {"a", "c"}}

agenda ==
    /\ pc = "idle"
    /\ \E ord \in RgOrders :
         todos' = load_todos(files, ord)
    /\ \E tags \in TagRequests :
         /\ groups' = AgendaGroups(todos', tags)
         /\ cmd' = [op |-> "agenda", index |-> 0, status |-> "-", tags |-> tags]
    /\ outcome' = IF groups' = <<>> THEN "empty" ELSE "listed"
    /\ written' = {}
    /\ listing' = <<>>
    /\ edited' = FALSE
    /\ rt' = NoRt
    /\ UNCHANGED <<files, pc, edits>>
    /\ UNCHANGED appendVars

------------------------------------------------------------------------------
(* Section-append writer *)

Heading(name) == Ln("h2", <<name>>)
Title == Ln("none", <<"title">>)

\* The header ensure_note_file writes: "\n".join(header) ends in one "\n".
Header == <<Title, Blank, Heading("Todos"), Blank, Heading("Notes")>>

ensure_note_file(exists, lines) == IF exists THEN lines ELSE Header

RECURSIVE DropTrailingBlank(_)
DropTrailingBlank(lines) ==
    IF lines # <<>> /\ lines[Len(lines)] = Blank
    THEN DropTrailingBlank(SubSeq(lines, 1, Len(lines) - 1))
    ELSE lines

\* read_text().rstrip("\n").split("\n"): the empty text splits into one
\* empty line.
ReadStripped(lines) ==
    IF DropTrailingBlank(lines) = <<>> THEN <<Blank>>
    ELSE DropTrailingBlank(lines)

InSeq(x, s) == \E i \in 1..Len(s) : s[i] = x

\* lines.index(heading)
IndexOf(x, s) == Min({i \in 1..Len(s) : s[i] = x})

InsertBeforeEnd(lines, start) == Len(lines)

\* The number of lines before the insertion point: up to the first line after
\* the heading that starts with "## ", or all of them.
InsertBefore(lines, start) ==
    LET J == {j \in (start + 1)..Len(lines) : lines[j].box = "h2"}
    IN IF J = {} THEN Len(lines) ELSE Min(J) - 1

append_to_section(content, heading, line) ==
    LET read == ReadStripped(content)
        lines == IF ~InSeq(heading, read) THEN read \o <<Blank, heading>> ELSE read
        start == IndexOf(heading, lines)
        before == InsertBefore(lines, start)
        sep == IF before > start /\ lines[before] # Blank THEN <<Blank>> ELSE <<>>
    IN SubSeq(lines, 1, before) \o sep \o <<line>>
       \o SubSeq(lines, before + 1, Len(lines))

\* " ".join(f"#{t}" for t in sorted(set(tags)))
TagTokens(tags) == SelectSeq(<<"#a", "#b">>, LAMBDA t : TagName[t] \in tags)

\* The line add_todo builds.
TodoLine(in) ==
    Ln("open", in.text
               \o (IF in.due # None THEN <<"@due", in.due>> ELSE <<>>)
               \o TagTokens(in.tags))

\* The line quick_note builds: "- [HH:MM] message #tags".
NoteLine(in) == Ln("none", <<"- [12:00]">> \o in.text \o TagTokens(in.tags))

TodoInputs ==
    {[text |-> <<"w">>, tags |-> {}, due |-> None],
     [text |-> <<"v">>, tags |-> {"b", "a"}, due |-> "2024-03-20"]}

NoteInputs == {[text |-> <<"m">>, tags |-> {}], [text |-> <<"n">>, tags |-> {"a"}]}

\* The record of one append_to_section call: what it was given, and whether
\* ensure_note_file had just created the file.
Call(heading, line) ==
    [heading |-> heading, line |-> line,
     old |-> ensure_note_file(noteExists, note), fresh |-> ~noteExists]

add_todo ==
    /\ Len(calls) < MaxAppends
    /\ \E in \in TodoInputs :
         /\ note' = append_to_section(ensure_note_file(noteExists, note),
                                      Heading("Todos"), TodoLine(in))
         /\ calls' = Append(calls, Call(Heading("Todos"), TodoLine(in)))
    /\ noteExists' = TRUE
    /\ UNCHANGED specVars

quick_note ==
    /\ Len(calls) < MaxAppends
    /\ \E in \in NoteInputs :
         /\ note' = append_to_section(ensure_note_file(noteExists, note),
                                      Heading("Notes"), NoteLine(in))
         /\ calls' = Append(calls, Call(Heading("Notes"), NoteLine(in)))
    /\ noteExists' = TRUE
    /\ UNCHANGED specVars

------------------------------------------------------------------------------
(* Specification of the scanner, the mutator and the views *)

\* The lines the first note file is made of.
Pool ==
    {Ln("open", <<"w">>),
     Ln("open", <<"w", "@due", "2024-03-20", "#b", "#a", "#b">>),
     Ln("none", <<"w", "FF", "w">>)}

\* The contents of the other two files.
Side2 == {<<>>, <<Ln("open", <<"w">>)>>}
Side3 == {<<>>, <<Ln("open", <<"@done", "2024-03-10">>)>>}

Init ==
    /\ \E c1 \in SeqsUpTo(Pool, MaxLines), c2 \in Side2, c3 \in Side3 :
         files = (F1 :> c1) @@ (F2 :> c2) @@ (F3 :> c3)
    /\ pc = "idle"
    /\ cmd = NoCmd
    /\ todos = <<>>
    /\ outcome = "none"
    /\ written = {}
    /\ listing = <<>>
    /\ groups = <<>>
    /\ edited = FALSE
    /\ edits = 0
    /\ rt = NoRt
    /\ note = <<>>
    /\ noteExists = FALSE
    /\ calls = <<>>

Next ==
    \/ update_todo_status_scan
    \/ update_todo_status_write
    \/ list_todos
    \/ agenda

Spec == Init /\ [][Next]_vars

\* The same program beside an editor that changes the addressed file between
\* the scan and the re-read.
NextRace ==
    \/ Next
    \/ EditTruncate
    \/ EditReplace
    \/ EditInsert

SpecRace == Init /\ [][NextRace]_vars

------------------------------------------------------------------------------
(* Specification of the section-append writer on one note file *)

NotePool == {Blank, Heading("Todos"), Heading("Notes"), Ln("none", <<"w">>)}

InitAppend ==
    /\ \/ noteExists = FALSE /\ note = <<>>
       \/ noteExists = TRUE /\ note \in SeqsUpTo(NotePool, MaxNoteLen)
    /\ calls = <<>>
    /\ files = (F1 :> <<>>) @@ (F2 :> <<>>) @@ (F3 :> <<>>)
    /\ pc = "idle"
    /\ cmd = NoCmd
    /\ todos = <<>>
    /\ outcome = "none"
    /\ written = {}
    /\ listing = <<>>
    /\ groups = <<>>
    /\ edited = FALSE
    /\ edits = 0
    /\ rt = NoRt

NextAppend ==
    \/ add_todo
    \/ quick_note

SpecAppend == InitAppend /\ [][NextAppend]_vars

------------------------------------------------------------------------------
(* Properties *)

\* The corpus key (created, path, line_no), compared as the strings compare.
KeyBefore(a, b) ==
    \/ DateNum[a.created] < DateNum[b.created]
    \/ a.created = b.created /\ PosixRank[a.file] < PosixRank[b.file]
    \/ a.created = b.created /\ a.file = b.file /\ a.line_no < b.line_no

\* The step in which update_todo_status re-reads and writes.
WriteStep == pc = "scanned" /\ pc' = "idle"

\* C1: when update_todo_status changes a status (no external edit in
\* between), exactly the line at the record's (file, line_no) changes: the
\* file keeps its number of lines, every other line keeps its content and
\* position, and no other file is written.
C1_OnlyTargetLineChanges ==
    [][(WriteStep /\ ~edited) =>
         LET t == AddressedTodo(todos, cmd.index)
         IN /\ written' = {t.file}
            /\ \A g \in Files \ {t.file} : files'[g] = files[g]
            /\ Len(files'[t.file]) = Len(files[t.file])
            /\ \A j \in 1..Len(files[t.file]) :
                 (files'[t.file][j] # files[t.file][j]) <=> (j = t.line_no)]_vars

\* C2: marking open todo i done and then immediately reopening it leaves, on
\* rescan, a record at ordinal i with status open and no completion date,
\* with the text, tags and due it had, and every line of its file other than
\* the targeted one as before.
C2_DoneThenReopenRestores ==
    rt.stage = 2 =>
      LET ts == load_todos(files, <<F1, F2, F3>>)
          f == rt.rec.file
      IN /\ IndexExists(rt.index, ts)
         /\ ts[rt.index].status = "open"
         /\ ts[rt.index].completed = None
         /\ ts[rt.index].text = rt.rec.text
         /\ ts[rt.index].tags = rt.rec.tags
         /\ ts[rt.index].due = rt.rec.due
         /\ Len(files[f]) = Len(rt.lines)
         /\ \A j \in 1..Len(rt.lines) :
              j # rt.rec.line_no => files[f][j] = rt.lines[j]

\* The line at the recorded number is gone or is no checkbox line any more.
RecordedLineLost ==
    LET t == AddressedTodo(todos, cmd.index)
    IN \/ t.line_no > Len(files[t.file])
       \/ ~IsCheckbox(files[t.file][t.line_no])

\* C3: when an external edit between the scan and the re-read leaves no
\* checkbox line at the recorded line number, update_todo_status aborts with
\* the conflict error and writes nothing.
C3_ConflictAborts ==
    [][(WriteStep /\ edited /\ RecordedLineLost) =>
         (outcome' = "linemissing" /\ written' = {} /\ files' = files)]_vars

\* C4: two add-to-"## Todos" appends on a freshly created note leave the two
\* lines adjacent, in call order, followed by exactly one blank line and
\* then the "## Notes" heading.
C4_TwoAppendsAdjacent ==
    (/\ Len(calls) = 2
     /\ calls[1].fresh
     /\ calls[1].heading = Heading("Todos")
     /\ calls[2].heading = Heading("Todos")) =>
      \E i \in 1..Len(note) :
        /\ i > IndexOf(Heading("Todos"), note)
        /\ i + 3 <= Len(note)
        /\ note[i] = calls[1].line
        /\ note[i + 1] = calls[2].line
        /\ note[i + 2] = Blank
        /\ note[i + 3] = Heading("Notes")

\* C5: the number list_todos prints next to a todo, whatever the status
\* filter, is the index at which update_todo_status finds that same todo in
\* the corpus of the same files.
C5_ListNumberAddressesTodo ==
    cmd.op = "list" =>
      \A k \in 1..Len(listing) :
        /\ IndexExists(listing[k].num, todos)
        /\ AddressedTodo(todos, listing[k].num) = listing[k].todo

\* The corpus in `todos` is the one load_todos returned for the files as they
\* are (no write and no edit since).
FreshCorpus == outcome \in {"notfound", "noop", "pending", "listed", "empty"} /\ ~edited

\* C6: every record of a corpus load_todos returns has a completion date if
\* and only if its status is done.
C6_CompletedIffDone ==
    FreshCorpus =>
      \A i \in 1..Len(todos) :
        (todos[i].completed # None) <=> (todos[i].status = "done")

\* C7: update_todo_status writes only when the index is within the corpus and
\* the addressed record's status differs from the target; an index out of
\* range is reported as not found, a target equal to the status as a no-op,
\* and in both cases no file is written or changed.
C7_WritesOnlyOnChange ==
    [][/\ (written' # {} \/ files' # files) =>
            /\ WriteStep
            /\ IndexExists(cmd.index, todos)
            /\ AddressedTodo(todos, cmd.index).status # cmd.status
       /\ (cmd'.op = "update" /\ ~IndexExists(cmd'.index, todos')) =>
            (outcome' = "notfound" /\ written' = {} /\ files' = files)
       /\ (/\ cmd'.op = "update" /\ pc = "idle"
           /\ IndexExists(cmd'.index, todos')
           /\ AddressedTodo(todos', cmd'.index).status = cmd'.status) =>
            (outcome' = "noop" /\ pc' = "idle" /\ written' = {} /\ files' = files)
      ]_vars

\* An already done todo was marked done again: reported as a no-op.
C7_Witness ==
    /\ cmd.op = "update" /\ cmd.status = "done"
    /\ outcome = "noop"
    /\ IndexExists(cmd.index, todos) /\ todos[cmd.index].status = "done"
    /\ written = {}

AgendaShown(i) ==
    UNION {{<<g, e>> : e \in {x \in 1..Len(groups[g].entries) :
                                 groups[g].entries[x].num = i}} :
           g \in 1..Len(groups)}

\* C9: agenda shows exactly the open todos that carry every requested tag,
\* each once, in the group of its due date if it has one and of its creation
\* date otherwise; the groups ascend by key and each group is in corpus order.
C9_AgendaGroups ==
    cmd.op = "agenda" =>
      /\ \A i \in 1..Len(todos) :
           Cardinality(AgendaShown(i)) =
             IF todos[i].status = "open" /\ cmd.tags \subseteq todos[i].tags
             THEN 1 ELSE 0
      /\ \A g \in 1..Len(groups) :
           /\ groups[g].entries # <<>>
           /\ \A e \in 1..Len(groups[g].entries) :
                LET p == groups[g].entries[e]
                IN /\ IndexExists(p.num, todos)
                   /\ p.todo = todos[p.num]
                   /\ groups[g].key = IF p.todo.due # None THEN p.todo.due
                                      ELSE p.todo.created
           /\ \A e1, e2 \in 1..Len(groups[g].entries) :
                e1 < e2 => KeyBefore(groups[g].entries[e1].todo,
                                     groups[g].entries[e2].todo)
      /\ \A g, h \in 1..Len(groups) :
           g < h => DateNum[groups[g].key] < DateNum[groups[h].key]

\* Two open todos due 2024-03-20 and one without due created 2024-03-18:
\* the groups 2024-03-18, then 2024-03-20.
C9_Witness ==
    /\ cmd.op = "agenda"
    /\ Len(groups) = 2
    /\ groups[1].key = "2024-03-18" /\ Len(groups[1].entries) = 1
    /\ groups[1].entries[1].todo.due = None
    /\ groups[2].key = "2024-03-20" /\ Len(groups[2].entries) = 2

RECURSIVE IsSubseq(_, _)
IsSubseq(a, b) ==
    IF a = <<>> THEN TRUE
    ELSE IF b = <<>> THEN FALSE
    ELSE IF Head(a) = Head(b) THEN IsSubseq(Tail(a), Tail(b))
    ELSE IsSubseq(a, Tail(b))

Count(s, v) == Cardinality({i \in 1..Len(s) : s[i] = v})

\* The new line is the last line of the section of the heading's first
\* occurrence.
LastOfSection(new, heading, line) ==
    /\ InSeq(heading, new)
    /\ LET start == IndexOf(heading, new)
           J == {j \in (start + 1)..Len(new) : new[j].box = "h2"}
           last == IF J = {} THEN Len(new) ELSE Min(J) - 1
       IN last > start /\ new[last] = line

\* The lines of old are kept, in order, and what was added is the new line,
\* at most one blank line and, when the heading was absent, the heading and
\* the blank line before it.
KeptAndAdded(old, new, heading, line) ==
    /\ IsSubseq(old, new)
    /\ \A i \in 1..Len(new) :
         Count(new, new[i]) - Count(old, new[i]) <=
           CASE new[i] = line -> 1
             [] new[i] = Blank -> IF InSeq(heading, old) THEN 1 ELSE 2
             [] new[i] = heading -> IF InSeq(heading, old) THEN 0 ELSE 1
             [] OTHER -> 0

LastCall == calls[Len(calls)]

\* C10 as stated: append_to_section makes the new line the last line of the
\* heading's section, and every line the file had keeps its content and
\* relative order.
C10_AppendKeepsEveryLine ==
    calls # <<>> =>
      /\ LastOfSection(note, LastCall.heading, LastCall.line)
      /\ KeptAndAdded(LastCall.old, note, LastCall.heading, LastCall.line)

\* C10 amended: the same, except that the empty lines at the end of the file
\* are dropped.
C10_AppendKeepsLinesButTrailingBlanks ==
    calls # <<>> =>
      /\ LastOfSection(note, LastCall.heading, LastCall.line)
      /\ KeptAndAdded(DropTrailingBlank(LastCall.old), note,
                      LastCall.heading, LastCall.line)

\* An append to a section that is followed by another heading, in a file
\* that ended in empty lines.
C10_Witness ==
    /\ calls # <<>>
    /\ InSeq(LastCall.heading, LastCall.old)
    /\ DropTrailingBlank(LastCall.old) # LastCall.old
    /\ \E j \in 1..Len(note) :
         j > IndexOf(LastCall.heading, note) + 1 /\ note[j].box = "h2"

====
